---------------------------- MODULE Spec2Model ----------------------------
(***************************************************************************)
(* ReflectoRay (src/reflectoray.py): rays (turtles) stepped against a      *)
(* list of line-segment mirrors.                                           *)
(*                                                                         *)
(* Numbers.  Coordinates are integers, headings are multiples of 90        *)
(* degrees and mirrors run along one of the eight directions that are      *)
(* multiples of 45 degrees, so that forward(), atan2 and the reflection    *)
(* are exact in integer arithmetic.  A distance is kept as the pair        *)
(* (numerator, squared denominator) of the quotient the code computes,     *)
(* and "distance <= 2**0.5" is compared on the squares.                    *)
(***************************************************************************)
EXTENDS Integers, Sequences, FiniteSets, TLC

(* ------------------------------ bounds -------------------------------- *)

\* largest `iterations` of a drawn configuration
MaxIter == 2
\* longest mirror list of a drawn configuration
MaxMirrors == 2
\* longest source list of a drawn configuration
MaxSources == 1

(* ---------------------------- constants ------------------------------- *)

\* extend_ray: extension_length = 1000
extension_length == 1000
\* simulate_rays: margin = 2**0.5, kept as its square
margin_sq == 2

(* ------------------------- turtle primitives -------------------------- *)

Abs(n) == IF n < 0 THEN -n ELSE n

\* cos and sin of a heading that is a multiple of 90 degrees
Cos(h) == CASE h % 360 = 0 -> 1 [] h % 360 = 180 -> -1 [] OTHER -> 0
Sin(h) == CASE h % 360 = 90 -> 1 [] h % 360 = 270 -> -1 [] OTHER -> 0

\* ray.forward(d): move d units along the current heading
forward(ray, d) ==
    [ray EXCEPT !.pos = <<ray.pos[1] + d * Cos(ray.heading),
                          ray.pos[2] + d * Sin(ray.heading)>>]

\* ray.setheading(a): the turtle keeps its heading in [0, 360)
setheading(ray, a) == [ray EXCEPT !.heading = a % 360]

\* ray.pendown() / ray.penup()
pendown(ray) == [ray EXCEPT !.pen = TRUE]
penup(ray) == [ray EXCEPT !.pen = FALSE]

(* ------------------------- scene construction ------------------------- *)

\* range(start, end, step) for step > 0
RECURSIVE Range(_, _, _)
Range(start, end, step) ==
    IF start >= end THEN <<>> ELSE <<start>> \o Range(start + step, end, step)

\* create_ray: goto(start), left(angle), pendown()
create_ray(angle, start, color) ==
    [pos |-> start, heading |-> angle % 360, pen |-> TRUE, color |-> color]

\* create_rays_from_sources: for angle in angles: for source in sources
create_rays_from_sources(angles, sources) ==
    [k \in 1..(Len(angles) * Len(sources)) |->
        create_ray(angles[((k - 1) \div Len(sources)) + 1],
                   sources[((k - 1) % Len(sources)) + 1].start,
                   sources[((k - 1) % Len(sources)) + 1].color)]

(* ------------------------------ geometry ------------------------------ *)

\* distance(point, line_start, line_end) = num / sqrt(den_sq)
distance(point, line_start, line_end) ==
    LET x == point[1]
        y == point[2]
        x1 == line_start[1]
        y1 == line_start[2]
        x2 == line_end[1]
        y2 == line_end[2]
    IN  [num |-> Abs((y2 - y1) * x - (x2 - x1) * y + x2 * y1 - y2 * x1),
         den_sq |-> (y2 - y1) * (y2 - y1) + (x2 - x1) * (x2 - x1)]

\* math.sqrt(...) = 0: the division raises ZeroDivisionError
ZeroDivision(mirror) ==
    distance(<<0, 0>>, mirror[1], mirror[2]).den_sq = 0

\* math.degrees(math.atan2(dy, dx)) on the eight directions, in (-180, 180]
atan2_degrees(dy, dx) ==
    CASE dy = 0 /\ dx > 0 -> 0
      [] dy > 0 /\ dx > 0 -> 45
      [] dy > 0 /\ dx = 0 -> 90
      [] dy > 0 /\ dx < 0 -> 135
      [] dy = 0 /\ dx < 0 -> 180
      [] dy < 0 /\ dx < 0 -> -135
      [] dy < 0 /\ dx = 0 -> -90
      [] dy < 0 /\ dx > 0 -> -45
      [] OTHER -> 0

\* a reflection that forgets to double the mirror angle
reflect_ray_undoubled(incident_angle, line_start, line_end) ==
    atan2_degrees(line_end[2] - line_start[2], line_end[1] - line_start[1])
        - incident_angle

\* reflect_ray: 2 * mirror_angle - incident_angle (not normalised)
reflect_ray(incident_angle, line_start, line_end) ==
    LET x1 == line_start[1]
        y1 == line_start[2]
        x2 == line_end[1]
        y2 == line_end[2]
        mirror_angle == atan2_degrees(y2 - y1, x2 - x1)
    IN  2 * mirror_angle - incident_angle

\* the values a turtle and the variables of extend_ray's loop may hold
Turtles == [pos : Int \X Int, heading : 0..359, pen : BOOLEAN, color : STRING]
LoopStates == [ray : Turtles, distance : Nat]

\* the while loop of extend_ray, from the loop state [ray, distance] to
\* the state in which it exits
extend_loop[st \in LoopStates] ==
    IF st.distance <= extension_length
    THEN extend_loop[
            [ray |-> forward(penup(forward(pendown(st.ray), 10)), 10),
             distance |-> st.distance + 20]]
    ELSE st

\* an extension that comes back by extension_length instead of distance
extend_ray_short(ray) ==
    LET angle == ray.heading
        out == extend_loop[[ray |-> setheading(ray, angle - 180),
                            distance |-> 0]]
    IN  pendown(forward(setheading(out.ray, angle), extension_length))

\* extend_ray
extend_ray(ray) ==
    LET angle == ray.heading
        out == extend_loop[[ray |-> setheading(ray, angle - 180),
                            distance |-> 0]]
    IN  pendown(forward(setheading(out.ray, angle), out.distance))

\* a boundary test that reads the mirror's y-extent in the other order
in_boundary_swapped(ray, mirror) ==
    \/ (mirror[2][2] < ray.pos[2] /\ ray.pos[2] < mirror[1][2])
    \/ (mirror[2][1] < ray.pos[1] /\ ray.pos[1] < mirror[1][1])

\* in_boundary = (sy < ray.ycor() < ey) or (ex < ray.xcor() < sx)
in_boundary(ray, mirror) ==
    LET sx == mirror[1][1]
        sy == mirror[1][2]
        ex == mirror[2][1]
        ey == mirror[2][2]
    IN  \/ (sy < ray.pos[2] /\ ray.pos[2] < ey)
        \/ (ex < ray.pos[1] /\ ray.pos[1] < sx)

\* a collision test with the margin comparison turned round
collides_flipped(ray, mirror) ==
    LET intersection == distance(ray.pos, mirror[1], mirror[2])
    IN  /\ intersection.num * intersection.num >= margin_sq * intersection.den_sq
        /\ in_boundary(ray, mirror)

\* intersection <= margin and in_boundary
collides(ray, mirror) ==
    LET intersection == distance(ray.pos, mirror[1], mirror[2])
    IN  /\ intersection.num * intersection.num <= margin_sq * intersection.den_sq
        /\ in_boundary(ray, mirror)

\* a loop body that reads the heading of the first ray of the list
mirror_body_shared(rays, k, mirror) ==
    LET ray == rays[k]
        hit == collides(ray, mirror)
        reflection_angle == reflect_ray(rays[1].heading, mirror[1], mirror[2])
        turned == setheading(ray, reflection_angle)
        extended == extend_ray(turned)
    IN  [ray |-> forward(IF hit THEN extended ELSE ray, 1),
         hit |-> hit,
         angle |-> IF hit THEN reflection_angle ELSE 0,
         turned |-> IF hit THEN turned ELSE ray,
         extended |-> IF hit THEN extended ELSE ray]

\* the body of "for mirror in mirrors" for the ray rays[k]: the ray it
\* leaves, and what happened on the way
mirror_body(rays, k, mirror) ==
    LET ray == rays[k]
        hit == collides(ray, mirror)
        reflection_angle == reflect_ray(ray.heading, mirror[1], mirror[2])
        turned == setheading(ray, reflection_angle)
        extended == extend_ray(turned)
    IN  [ray |-> forward(IF hit THEN extended ELSE ray, 1),
         hit |-> hit,
         angle |-> IF hit THEN reflection_angle ELSE 0,
         turned |-> IF hit THEN turned ELSE ray,
         extended |-> IF hit THEN extended ELSE ray]

(* --------------------------- configurations --------------------------- *)

\* mirrors a drawn configuration may list: vertical bottom-to-top and
\* top-to-bottom, horizontal right-to-left, diagonal, degenerate
MirrorPool ==
    { <<<<2, -3>>, <<2, 3>>>>,
      <<<<2, 3>>, <<2, -3>>>>,
      <<<<3, 2>>, <<-3, 2>>>>,
      <<<<-3, -3>>, <<3, 3>>>>,
      <<<<0, 0>>, <<0, 0>>>> }

SourcePool ==
    { [start |-> <<0, 0>>, color |-> "red"],
      [start |-> <<1, 1>>, color |-> "blue"] }

AnglePool ==
    { [start |-> 0, end |-> 360, step |-> 90],
      [start |-> 0, end |-> 180, step |-> 90],
      [start |-> 270, end |-> 360, step |-> 90] }

SeqsUpTo(S, lo, hi) == UNION { [1..n -> S] : n \in lo..hi }

\* the scenario of one vertical mirror and one ray along +x
VerticalMirrorConfig ==
    [mirrors |-> << <<<<100, -100>>, <<100, 100>>>> >>,
     sources |-> << [start |-> <<0, 0>>, color |-> "red"] >>,
     angles |-> [start |-> 0, end |-> 90, step |-> 90],
     iterations |-> 120]

\* initial_conditions.json as main() reads it
Configs ==
    { [mirrors |-> m, sources |-> s, angles |-> a, iterations |-> n] :
        m \in SeqsUpTo(MirrorPool, 0, MaxMirrors),
        s \in SeqsUpTo(SourcePool, 1, MaxSources),
        a \in AnglePool,
        n \in 0..MaxIter }
    \cup { VerticalMirrorConfig }

(* ------------------------------- state -------------------------------- *)

VARIABLES
    cfg,        \* MIRRORS, SOURCES, ANGLES, ITERATIONS of main()
    rays,       \* the list setup_simulation returns
    without,    \* without[r]: the rays of the run started without ray r
    i,          \* run_simulation: ticks completed
    ri,         \* simulate_rays: index of the ray being stepped
    mi,         \* simulate_rays: index of the mirror to test next
    status,     \* running, done, interrupted, ZeroDivisionError
    last,       \* the last execution of the mirror loop's body
    hits,       \* hits[r]: reflections of ray r so far
    tests,      \* tests[r]: mirror tests of ray r so far
    prevHit,    \* prevHit[r][m]: the last test of ray r against m reflected
    tickStart,  \* tickStart[r]: ray r when the current tick began
    tickHits    \* tickHits[r]: mirrors that reflected ray r in this tick

vars == <<cfg, rays, without, i, ri, mi, status, last, hits, tests, prevHit,
          tickStart, tickHits>>

\* setup_simulation: the rays of the configuration
InitialRays(c) ==
    create_rays_from_sources(
        Range(c.angles.start, c.angles.end, c.angles.step), c.sources)

\* the list with its r-th ray taken out
Remove(seq, r) ==
    [k \in 1..(Len(seq) - 1) |-> IF k < r THEN seq[k] ELSE seq[k + 1]]

NoRay == [pos |-> <<0, 0>>, heading |-> 0, pen |-> TRUE, color |-> ""]

Init ==
    /\ cfg \in Configs
    /\ rays = InitialRays(cfg)
    /\ without = [r \in DOMAIN rays |-> Remove(rays, r)]
    /\ i = 0
    /\ ri = 1
    /\ mi = 1
    /\ status = "running"
    /\ last = [ray |-> 0, mirror |-> 0, before |-> NoRay, hit |-> FALSE,
               angle |-> 0, turned |-> NoRay, extended |-> NoRay,
               after |-> NoRay, prevHit |-> FALSE]
    /\ hits = [r \in DOMAIN rays |-> 0]
    /\ tests = [r \in DOMAIN rays |-> 0]
    /\ prevHit = [r \in DOMAIN rays |-> [m \in DOMAIN cfg.mirrors |-> FALSE]]
    /\ tickStart = rays
    /\ tickHits = [r \in DOMAIN rays |-> <<>>]

\* one pass of the body of "for mirror in mirrors" (lines 201-212)
MirrorTest ==
    /\ status = "running"
    /\ i < cfg.iterations
    /\ ri <= Len(rays)
    /\ mi <= Len(cfg.mirrors)
    /\ IF ZeroDivision(cfg.mirrors[mi])
       THEN /\ status' = "ZeroDivisionError"
            /\ UNCHANGED <<cfg, rays, without, i, ri, mi, last, hits, tests,
                           prevHit, tickStart, tickHits>>
       ELSE LET out == mirror_body(rays, ri, cfg.mirrors[mi])
            IN  /\ rays' = [rays EXCEPT ![ri] = out.ray]
                /\ without' =
                     [r \in DOMAIN without |->
                        IF r = ri THEN without[r]
                        ELSE LET k == IF ri < r THEN ri ELSE ri - 1
                             IN  [without[r] EXCEPT ![k] =
                                    mirror_body(without[r], k,
                                                cfg.mirrors[mi]).ray]]
                /\ mi' = mi + 1
                /\ last' = [ray |-> ri, mirror |-> mi, before |-> rays[ri],
                            hit |-> out.hit, angle |-> out.angle,
                            turned |-> out.turned, extended |-> out.extended,
                            after |-> out.ray, prevHit |-> prevHit[ri][mi]]
                /\ hits' = [hits EXCEPT ![ri] = @ + (IF out.hit THEN 1 ELSE 0)]
                /\ tests' = [tests EXCEPT ![ri] = @ + 1]
                /\ prevHit' = [prevHit EXCEPT ![ri][mi] = out.hit]
                /\ tickHits' = [tickHits EXCEPT ![ri] =
                                  IF out.hit THEN Append(@, mi) ELSE @]
                /\ UNCHANGED <<cfg, i, ri, status, tickStart>>

\* "for mirror in mirrors" is exhausted: "for ray in rays" takes the next ray
NextRay ==
    /\ status = "running"
    /\ i < cfg.iterations
    /\ ri <= Len(rays)
    /\ mi > Len(cfg.mirrors)
    /\ ri' = ri + 1
    /\ mi' = 1
    /\ UNCHANGED <<cfg, rays, without, i, status, last, hits, tests, prevHit,
                   tickStart, tickHits>>

\* simulate_rays returns; screen.update(), progress.update(): the tick ends
EndTick ==
    /\ status = "running"
    /\ i < cfg.iterations
    /\ ri > Len(rays)
    /\ i' = i + 1
    /\ ri' = 1
    /\ mi' = 1
    /\ tickStart' = rays
    /\ tickHits' = [r \in DOMAIN rays |-> <<>>]
    /\ UNCHANGED <<cfg, rays, without, status, last, hits, tests, prevHit>>

\* range(iterations) is exhausted: run_simulation returns, main() completes
Finish ==
    /\ status = "running"
    /\ i >= cfg.iterations
    /\ status' = "done"
    /\ UNCHANGED <<cfg, rays, without, i, ri, mi, last, hits, tests, prevHit,
                   tickStart, tickHits>>

\* KeyboardInterrupt: raised wherever the run is, caught in main()
KeyboardInterrupt ==
    /\ status = "running"
    /\ status' = "interrupted"
    /\ UNCHANGED <<cfg, rays, without, i, ri, mi, last, hits, tests, prevHit,
                   tickStart, tickHits>>

\* the steps of the program itself
Step == MirrorTest \/ NextRay \/ EndTick \/ Finish

Next == MirrorTest \/ NextRay \/ EndTick \/ Finish \/ KeyboardInterrupt

Spec == Init /\ [][Next]_vars

\* the runs of the vertical-mirror scenario alone
VerticalMirrorInit == Init /\ cfg = VerticalMirrorConfig

\* the program is one thread: it runs on until it ends or is interrupted
VerticalMirrorSpec == VerticalMirrorInit /\ [][Next]_vars /\ WF_vars(Step)

(* ------------------------------- claims ------------------------------- *)

Unit(h) == <<Cos(h), Sin(h)>>

\* n ticks are complete and the next has not begun
TickBoundary == ri = 1 /\ mi = 1

\* ray r has been taken through all the mirrors of the current tick
SteppedThisTick(r) == r < ri \/ (r = ri /\ mi > Len(cfg.mirrors))

\* the mirror the last test was against
LastMirror == cfg.mirrors[last.mirror]

\* C1: a ray that no collision test has reflected is, after n ticks, at
\* start + n * (unit vector of its initial heading), with its initial heading:
\* one unit per tick, whatever the length of the mirror list.
C1_OneUnitPerTick ==
    \A r \in DOMAIN rays :
        (TickBoundary /\ hits[r] = 0) =>
            /\ rays[r].heading = InitialRays(cfg)[r].heading
            /\ rays[r].pos =
                 <<InitialRays(cfg)[r].pos[1] + i * Unit(rays[r].heading)[1],
                   InitialRays(cfg)[r].pos[2] + i * Unit(rays[r].heading)[2]>>

InVerticalMirrorScenario == cfg = VerticalMirrorConfig

VerticalMirrorSafety ==
    /\ hits[1] <= 1
    /\ rays[1].pos[1] <= 100
    /\ rays[1].pos[2] = 0
    /\ hits[1] = 0 => /\ rays[1].heading = 0
                      /\ rays[1].pos[1] = tests[1]
                      /\ rays[1].pos[1] <= 99
    /\ hits[1] = 1 => /\ rays[1].heading = 180
                      /\ rays[1].pos[1] = 198 - tests[1]
    /\ (last.ray = 1 /\ last.hit) => /\ last.before.pos = <<99, 0>>
                                     /\ last.angle % 360 = 180
    /\ status = "done" => hits[1] = 1

\* C2: one vertical mirror ((100,-100),(100,100)), one ray from (0,0) with
\* heading 0: unless the run is interrupted the ray comes within the margin of
\* the mirror (at x = 99), its heading becomes 180 there, and the heading is
\* 180 ever after: x never exceeds 100 and there is no second reflection.
C2_VerticalMirror ==
    /\ [](InVerticalMirrorScenario => VerticalMirrorSafety)
    /\ [][(InVerticalMirrorScenario /\ rays[1].heading = 180)
            => rays'[1].heading = 180]_vars
    /\ <>(~InVerticalMirrorScenario \/ status = "interrupted"
            \/ rays[1].heading = 180)

C2_Witness ==
    /\ InVerticalMirrorScenario
    /\ status = "done"
    /\ hits[1] = 1
    /\ rays[1].heading = 180
    /\ tests[1] = cfg.iterations

\* the mirrors whose collision test ray r satisfied when the tick began
CollidingAtTickStart(r) ==
    { m \in DOMAIN cfg.mirrors :
        ~ZeroDivision(cfg.mirrors[m]) /\ collides(tickStart[r], cfg.mirrors[m]) }

\* C3: a ray that satisfies the collision test of two mirrors when a tick
\* begins reflects off each of the two once within that tick, in list order:
\* its heading after the tick is reflect(reflect(h, first), second).
C3_BothMirrorsReflect ==
    \A r \in DOMAIN rays : \A a, b \in DOMAIN cfg.mirrors :
        (SteppedThisTick(r) /\ a < b /\ CollidingAtTickStart(r) = {a, b}) =>
            /\ tickHits[r] = <<a, b>>
            /\ rays[r].heading =
                 reflect_ray(
                    reflect_ray(tickStart[r].heading,
                                cfg.mirrors[a][1], cfg.mirrors[a][2]),
                    cfg.mirrors[b][1], cfg.mirrors[b][2]) % 360

\* C4: every other ray is, at every point of the run, where it is in the run
\* started without ray r.
C4_NonInteraction ==
    \A r \in DOMAIN rays : without[r] = Remove(rays, r)

C4_Witness ==
    \E r, k \in DOMAIN rays :
        /\ r # k
        /\ hits[k] > 0
        /\ hits[r] > 0
        /\ rays[k].heading # InitialRays(cfg)[k].heading
        /\ without[r] = Remove(rays, r)

\* C5: no run reaches a collision test against a degenerate mirror: a
\* configuration with one is rejected before the first tick, so the stepping
\* never divides by zero.
C5_DegenerateRejected ==
    /\ status # "ZeroDivisionError"
    /\ (last.mirror # 0 => ~ZeroDivision(LastMirror))

\* C6: an interrupted run stops between ticks: every ray has been through
\* the same whole number of complete ticks.
C6_InterruptBetweenTicks ==
    status = "interrupted" =>
        \E n \in 0..cfg.iterations :
            \A r \in DOMAIN rays : tests[r] = n * Len(cfg.mirrors)

Headings == {0, 90, 180, 270}

\* C7: reflect_ray gives the same heading modulo 360 for a mirror's endpoints
\* in either order: for every mirror of the configuration and every heading,
\* and for the reflection the run has just made.
C7_EndpointOrder ==
    /\ \A m \in DOMAIN cfg.mirrors : \A h \in Headings :
          ~ZeroDivision(cfg.mirrors[m]) =>
              reflect_ray(h, cfg.mirrors[m][1], cfg.mirrors[m][2]) % 360
                = reflect_ray(h, cfg.mirrors[m][2], cfg.mirrors[m][1]) % 360
    /\ last.hit =>
          last.angle % 360
            = reflect_ray(last.before.heading, LastMirror[2], LastMirror[1]) % 360

\* a reflection whose value differs between the two orders before the modulo
C7_Witness ==
    /\ last.hit
    /\ last.angle
         # reflect_ray(last.before.heading, LastMirror[2], LastMirror[1])
    /\ last.after.heading = last.angle % 360

\* C8: a test of a ray against a mirror that reflects is never followed by
\* another reflecting test of the same ray against the same mirror.
C8_NoImmediateRetrigger == ~(last.hit /\ last.prevHit)

\* C9: extend_ray leaves the ray where and as it found it, so a test changes
\* the position only by its forward(1), and the heading only by setheading.
C9_ExtendRayNoNetEffect ==
    last.ray # 0 =>
        /\ last.extended = last.turned
        /\ last.turned.pos = last.before.pos
        /\ last.after.heading = last.turned.heading
        /\ last.after.pos =
             <<last.before.pos[1] + Unit(last.after.heading)[1],
               last.before.pos[2] + Unit(last.after.heading)[2]>>
        /\ ~last.hit => last.turned = last.before

C9_Witness ==
    /\ last.hit
    /\ last.extended = last.turned
    /\ last.turned.heading # last.before.heading

\* a mirror listed with start.y >= end.y and start.x <= end.x
NeverInBoundary(mirror) ==
    mirror[1][2] >= mirror[2][2] /\ mirror[1][1] <= mirror[2][1]

\* C10: a mirror with start.y >= end.y and start.x <= end.x reflects no ray:
\* no test against it triggers, and among such mirrors only every ray keeps
\* its initial heading.
C10_EndpointOrderBlind ==
    /\ (last.ray # 0 /\ NeverInBoundary(LastMirror)) =>
          ~last.hit /\ last.after.heading = last.before.heading
    /\ (\A m \in DOMAIN cfg.mirrors : NeverInBoundary(cfg.mirrors[m])) =>
          \A r \in DOMAIN rays :
              hits[r] = 0 /\ rays[r].heading = InitialRays(cfg)[r].heading

\* a ray on the segment of such a mirror, within the margin, tested, not
\* reflected
C10_Witness ==
    /\ last.ray # 0
    /\ NeverInBoundary(LastMirror)
    /\ ~ZeroDivision(LastMirror)
    /\ LET d == distance(last.before.pos, LastMirror[1], LastMirror[2])
       IN  d.num * d.num <= margin_sq * d.den_sq
    /\ LastMirror[2][2] < last.before.pos[2]
    /\ last.before.pos[2] < LastMirror[1][2]
    /\ ~last.hit

==========================================================================
